---- MODULE Spec2Model ----
(***************************************************************************)
(* lcelib/misc/CalQueue.H: the calendar queue.                             *)
(*                                                                         *)
(*   EventList   a singly linked list of events sorted by time; a list is  *)
(*               modelled as the sequence of its nodes from root on.       *)
(*   CalQCore    the bucket table; modelled as a record with the fields of *)
(*               the class.                                                *)
(*   MyCalQueue  the adaptive controller owning one CalQCore and three     *)
(*               counters.                                                 *)
(*                                                                         *)
(* An event is a record [id, time]: id is the identity of the object (its  *)
(* address in the program), time its scheduled time.  Null is the null     *)
(* pointer.  Assertions are compiled in: a failed assertion aborts the     *)
(* program (status "assert").  A loop that can never exit is status        *)
(* "hang"; an execution that evaluates a shift whose result the language   *)
(* leaves undefined and on which the possible results differ is status     *)
(* "ub", and so is one that a build stops at such a shift.  The loop of    *)
(* EventList::remove that never advances has no side effect, which the     *)
(* language leaves undefined as well: the outcome is any of                *)
(* RemoveLoopOutcomes, chosen by the build.                                *)
(***************************************************************************)
EXTENDS Integers, Sequences, FiniteSets, TLC

\* Bounds of the model: the number of event objects that are pushed, the
\* largest time of an event pushed on the controller and on a bare core, and
\* the number of times a bare core is consumed by one of another geometry.
MaxEvents == 2
MaxTime == 9
CoreMaxTime == 4
MaxRebuilds == 1

\* Bounds of the controller under pushes and pops only: the number of event
\* objects that are pushed, and the times of the events.  With 4 buckets of
\* size 1 the times 1, 3, 5 fall in the first two years, 8, 9 in the third
\* (a pop that reaches them from time 0 makes the retune double the number
\* of buckets) and 16, 17 in the fifth (the retune doubles the bucket size,
\* and the two times share a bucket).
MaxFlowEvents == 4
FlowTimes == {1, 3, 5, 8, 9, 16, 17}

\* Bounds of a list used on its own: the number of event objects pushed on
\* it and their largest time.
MaxListEvents == 3
MaxListTime == 2

\* The arguments the constructors are called with.
StartTimes == {0, 1}
InitLogNumEvents == {0, 1}
LogBinSizes == {0, 1}
LogNumBins == {0, 1}

\* The last times of the range of TimeType (-1 is 2^64 - 1), for cores
\* that start there.
TopTimes == {0 - 4, 0 - 3, 0 - 2, 0 - 1}

VARIABLES
  queue,              \* MyCalQueue::queue, the CalQCore in use
  popProbeLenSum,     \* MyCalQueue::popProbeLenSum
  popFutureEventSum,  \* MyCalQueue::popFutureEventSum
  popCounter,         \* MyCalQueue::popCounter
  status,             \* "ok", "assert", "hang" or "ub"
  op,                 \* the last call: "new", "push", "pop", "remove", "consume"
  absent,             \* the last call was a remove of an event not in the table
  retval,             \* what the last call returned
  nextId,             \* identity of the next event object to be pushed
  numPopped,          \* number of events that pop has returned
  removed,            \* the events that remove has unlinked
  rebuilds,           \* number of geometry rebuilds so far
  ref,                \* a CalQCore of the initial geometry, fed the same calls
  refRetval,          \* what the last call returned on ref
  list                \* EventList::root of a list used on its own

vars == <<queue, popProbeLenSum, popFutureEventSum, popCounter, status, op,
          absent, retval, nextId, numPopped, removed, rebuilds, ref, refRetval,
          list>>

----------------------------------------------------------------------------
\* Integer helpers: the bit operations the code uses.

RECURSIVE Pow2(_)
Pow2(n) == IF n = 0 THEN 1 ELSE 2 * Pow2(n - 1)

\* x >> n, for a shift count within the width of x.  For a time x written
\* as a negative integer the quotient is congruent to the shifted value
\* modulo 2^(64 - n): its multiples by 2^n are congruent modulo 2^64.
Shr(x, n) == x \div Pow2(n)

\* a & b, for a mask b that is not negative
RECURSIVE BitAnd(_, _)
BitAnd(a, b) ==
  IF a = 0 \/ b = 0 THEN 0
  ELSE (IF a % 2 = 1 /\ b % 2 = 1 THEN 1 ELSE 0) + 2 * BitAnd(a \div 2, b \div 2)

\* TimeType is unsigned long.  A time in the upper half of its range is
\* written as the negative integer congruent to it modulo 2^64 (-1 is the
\* largest time); sums, masks and shifts of the model then agree with the
\* wrapping arithmetic of the type, and the order of two times is:
TimeLess(a, b) == IF (a < 0) = (b < 0) THEN a < b ELSE b < 0

TimeLeq(a, b) == a = b \/ TimeLess(a, b)

----------------------------------------------------------------------------
\* CalQEvent and EventTypeTraits

Null == [id |-> 0, time |-> 0]

CalQEvent(i, timeScheduled) == [id |-> i, time |-> timeScheduled]

getEventTime(e) == e.time

----------------------------------------------------------------------------
\* EventList: root is the sequence of linked events, <<>> for root == 0.

\* The scan of push: prevToCurr is root[i]; returns the final prevToCurr.
RECURSIVE EventList_push_scan(_, _, _)
EventList_push_scan(root, subj, i) ==
  IF i < Len(root) /\ TimeLess(getEventTime(root[i + 1]), getEventTime(subj))
  THEN EventList_push_scan(root, subj, i + 1)
  ELSE i

\* The assertions of push hold: the subject is not the node it is linked
\* before, and the nodes the scan walks over are in time order.
EventList_push_asserts(root, subj) ==
  IF root = <<>> \/ TimeLeq(getEventTime(subj), getEventTime(Head(root)))
  THEN root = <<>> \/ Head(root).id # subj.id
  ELSE LET i == EventList_push_scan(root, subj, 1) IN
       /\ \A j \in 1..(i - 1) : TimeLeq(getEventTime(root[j]), getEventTime(root[j + 1]))
       /\ (i < Len(root) => root[i + 1].id # subj.id)

\* Mutant: the subject is linked at the head whatever its time.
EventList_push_atHead(root, subj) == <<subj>> \o root

\* Mutant: the subject is linked after the entries of its own time
\* (> at the head, <= in the scan).
RECURSIVE EventList_push_scanPastEqual(_, _, _)
EventList_push_scanPastEqual(root, subj, i) ==
  IF i < Len(root) /\ TimeLeq(getEventTime(root[i + 1]), getEventTime(subj))
  THEN EventList_push_scanPastEqual(root, subj, i + 1)
  ELSE i

EventList_push_afterEqual(root, subj) ==
  IF root = <<>> \/ TimeLess(getEventTime(subj), getEventTime(Head(root)))
  THEN <<subj>> \o root
  ELSE LET i == EventList_push_scanPastEqual(root, subj, 1) IN
       SubSeq(root, 1, i) \o <<subj>> \o SubSeq(root, i + 1, Len(root))

\* Mutant: the subject becomes the head only if it is earlier than the
\* head (> for >=).
EventList_push_strictHead(root, subj) ==
  IF root = <<>> \/ TimeLess(getEventTime(subj), getEventTime(Head(root)))
  THEN <<subj>> \o root
  ELSE LET i == EventList_push_scan(root, subj, 1) IN
       SubSeq(root, 1, i) \o <<subj>> \o SubSeq(root, i + 1, Len(root))

\* Mutant: the subject is linked after the last node whatever its time.
EventList_push_atTail(root, subj) == Append(root, subj)

EventList_push(root, subj) ==
  IF root = <<>> \/ TimeLeq(getEventTime(subj), getEventTime(Head(root)))
  THEN <<subj>> \o root
  ELSE LET i == EventList_push_scan(root, subj, 1) IN
       SubSeq(root, 1, i) \o <<subj>> \o SubSeq(root, i + 1, Len(root))

EventList_pop(root) ==
  IF root # <<>>
  THEN [retval |-> Head(root), root |-> Tail(root)]
  ELSE [retval |-> Null, root |-> root]

getMinTime(root) == getEventTime(root[1])

isEmpty(root) == root = <<>>

\* remove: the loop never advances prevToCurr, which stays root.  With a
\* second node that is not the subject every iteration repeats the one
\* before it, with no side effect, and a build may assume that such a loop
\* ends.  The builds differ: the call never returns ("hang": g++ -O0 to
\* -O2, and -O3 without assertions), it aborts on the assertion of the
\* order although the list is in order ("assert": g++ -O3, -Ofast), or it
\* does anything else the build made of the loop ("ub").
RemoveLoopOutcomes == {"hang", "assert", "ub"}

\* The set of the possible results of remove: one result wherever the call
\* returns or fails the assertion of the order, and one per outcome of
\* RemoveLoopOutcomes where the loop repeats with prevToCurr at the root.
EventList_remove(root, subj) ==
  IF root = <<>>
  THEN {[outcome |-> "ok", retval |-> FALSE, root |-> root]}
  ELSE IF Head(root).id = subj.id
  THEN {[outcome |-> "ok", retval |-> TRUE, root |-> Tail(root)]}
  ELSE IF Len(root) = 1
  THEN {[outcome |-> "ok", retval |-> FALSE, root |-> root]}
  ELSE IF ~TimeLeq(getEventTime(root[1]), getEventTime(root[2]))
  THEN {[outcome |-> "assert", retval |-> FALSE, root |-> root]}
  ELSE IF root[2].id = subj.id
  THEN {[outcome |-> "ok", retval |-> TRUE,
         root |-> <<root[1]>> \o SubSeq(root, 3, Len(root))]}
  ELSE {[outcome |-> o, retval |-> FALSE, root |-> root] : o \in RemoveLoopOutcomes}

----------------------------------------------------------------------------
\* CalQCore

getSlot(q, time) == Shr(BitAnd(time, q.moduloMask), q.divideShift)

CalQCore(logBinSize, logNumBins, startTime) ==
  LET bs == Pow2(logBinSize)
      nb == Pow2(logNumBins)
      geo == [divideShift |-> logBinSize, moduloMask |-> bs * nb - 1]
  IN [logTableSize  |-> logNumBins,
      binSize       |-> bs,
      numBins       |-> nb,
      divideShift   |-> logBinSize,
      moduloMask    |-> bs * nb - 1,
      lastPopped    |-> startTime,
      currBin       |-> getSlot(geo, startTime),
      nextYearStart |-> (Shr(startTime, logBinSize + logNumBins) + 1) * bs * nb,
      bins          |-> [i \in 0..(nb - 1) |-> <<>>],
      numEvents     |-> 0]

getCurrTime(q) == q.lastPopped
getYearLength(q) == q.moduloMask + 1
getLogBinSize(q) == q.divideShift
getLogNumBins(q) == q.logTableSize
getNumEvents(q) == q.numEvents
getNumBins(q) == q.numBins

\* Every event linked into the table, as a set.
Contained(q) == UNION {{q.bins[b][k] : k \in 1..Len(q.bins[b])} : b \in DOMAIN q.bins}

\* Mutant: the event is counted before the causality check.
CalQCore_push_countFirst(q, subj) ==
  IF ~TimeLeq(q.lastPopped, getEventTime(subj))
  THEN [outcome |-> "assert", queue |-> [q EXCEPT !.numEvents = @ + 1]]
  ELSE LET s == getSlot(q, getEventTime(subj)) IN
       [outcome |-> "ok",
        queue |-> [q EXCEPT !.numEvents = @ + 1,
                            !.bins[s] = EventList_push(@, subj)]]

\* Mutant: the bucket is selected without the shift by divideShift.
CalQCore_push_slotNoShift(q, subj) ==
  IF ~TimeLeq(q.lastPopped, getEventTime(subj))
  THEN [outcome |-> "assert", queue |-> q]
  ELSE LET s == BitAnd(getEventTime(subj), q.numBins - 1) IN
       IF ~EventList_push_asserts(q.bins[s], subj)
       THEN [outcome |-> "assert", queue |-> [q EXCEPT !.numEvents = @ + 1]]
       ELSE [outcome |-> "ok",
             queue |-> [q EXCEPT !.numEvents = @ + 1,
                                 !.bins[s] = EventList_push(@, subj)]]

CalQCore_push(q, subj) ==
  IF ~TimeLeq(q.lastPopped, getEventTime(subj))
  THEN [outcome |-> "assert", queue |-> q]
  ELSE LET s == getSlot(q, getEventTime(subj)) IN
       IF ~EventList_push_asserts(q.bins[s], subj)
       THEN [outcome |-> "assert", queue |-> [q EXCEPT !.numEvents = @ + 1]]
       ELSE [outcome |-> "ok",
             queue |-> [q EXCEPT !.numEvents = @ + 1,
                                 !.bins[s] = EventList_push(@, subj)]]

\* No bucket can pass the test of the scan loop of pop, whatever multiple
\* of the year length nextYearStart is: the bucket is empty, or its first
\* event lies in the last year of the range of TimeType, which no value of
\* nextYearStart exceeds.
NeverCurrentYear(q) ==
  \A b \in DOMAIN q.bins :
    \/ isEmpty(q.bins[b])
    \/ TimeLeq(0 - getYearLength(q), getMinTime(q.bins[b]))

\* Mutant: the head of a bucket is returned whatever its year.
RECURSIVE CalQCore_pop_scan_anyYear(_, _, _)
CalQCore_pop_scan_anyYear(q, probeLenAcc, numFutEvsAcc) ==
  IF NeverCurrentYear(q)
  THEN [outcome |-> "hang", queue |-> q, retval |-> Null,
        probeLenAcc |-> probeLenAcc, numFutEvsAcc |-> numFutEvsAcc]
  ELSE IF ~isEmpty(q.bins[q.currBin])
  THEN [outcome |-> "ok",
        queue |-> [q EXCEPT !.lastPopped = getMinTime(q.bins[q.currBin]),
                            !.bins[q.currBin] = EventList_pop(@).root],
        retval |-> EventList_pop(q.bins[q.currBin]).retval,
        probeLenAcc |-> probeLenAcc, numFutEvsAcc |-> numFutEvsAcc]
  ELSE CalQCore_pop_scan_anyYear(
         IF q.currBin + 1 = q.numBins
         THEN [q EXCEPT !.currBin = 0, !.nextYearStart = @ + (q.moduloMask + 1)]
         ELSE [q EXCEPT !.currBin = @ + 1],
         probeLenAcc + 1, numFutEvsAcc)

\* Mutant: the end of a year moves nextYearStart on by two year lengths.
RECURSIVE CalQCore_pop_scan_skipYear(_, _, _)
CalQCore_pop_scan_skipYear(q, probeLenAcc, numFutEvsAcc) ==
  IF NeverCurrentYear(q)
  THEN [outcome |-> "hang", queue |-> q, retval |-> Null,
        probeLenAcc |-> probeLenAcc, numFutEvsAcc |-> numFutEvsAcc]
  ELSE IF ~isEmpty(q.bins[q.currBin])
          /\ TimeLess(getMinTime(q.bins[q.currBin]), q.nextYearStart)
  THEN IF ~TimeLeq(q.lastPopped, getMinTime(q.bins[q.currBin]))
       THEN [outcome |-> "assert", queue |-> q, retval |-> Null,
             probeLenAcc |-> probeLenAcc, numFutEvsAcc |-> numFutEvsAcc]
       ELSE [outcome |-> "ok",
             queue |-> [q EXCEPT !.lastPopped = getMinTime(q.bins[q.currBin]),
                                 !.bins[q.currBin] = EventList_pop(@).root],
             retval |-> EventList_pop(q.bins[q.currBin]).retval,
             probeLenAcc |-> probeLenAcc, numFutEvsAcc |-> numFutEvsAcc]
  ELSE CalQCore_pop_scan_skipYear(
         IF q.currBin + 1 = q.numBins
         THEN [q EXCEPT !.currBin = 0, !.nextYearStart = @ + 2 * (q.moduloMask + 1)]
         ELSE [q EXCEPT !.currBin = @ + 1],
         probeLenAcc + 1,
         IF ~isEmpty(q.bins[q.currBin]) THEN numFutEvsAcc + 1 ELSE numFutEvsAcc)

\* The scan loop of pop.  When no bucket can pass the test no iteration
\* returns: the loop runs forever.
RECURSIVE CalQCore_pop_scan(_, _, _)
CalQCore_pop_scan(q, probeLenAcc, numFutEvsAcc) ==
  IF NeverCurrentYear(q)
  THEN [outcome |-> "hang", queue |-> q, retval |-> Null,
        probeLenAcc |-> probeLenAcc, numFutEvsAcc |-> numFutEvsAcc]
  ELSE IF ~isEmpty(q.bins[q.currBin])
          /\ TimeLess(getMinTime(q.bins[q.currBin]), q.nextYearStart)
  THEN IF ~TimeLeq(q.lastPopped, getMinTime(q.bins[q.currBin]))
       THEN [outcome |-> "assert", queue |-> q, retval |-> Null,
             probeLenAcc |-> probeLenAcc, numFutEvsAcc |-> numFutEvsAcc]
       ELSE [outcome |-> "ok",
             queue |-> [q EXCEPT !.lastPopped = getMinTime(q.bins[q.currBin]),
                                 !.bins[q.currBin] = EventList_pop(@).root],
             retval |-> EventList_pop(q.bins[q.currBin]).retval,
             probeLenAcc |-> probeLenAcc, numFutEvsAcc |-> numFutEvsAcc]
  ELSE CalQCore_pop_scan(
         IF q.currBin + 1 = q.numBins
         THEN [q EXCEPT !.currBin = 0, !.nextYearStart = @ + (q.moduloMask + 1)]
         ELSE [q EXCEPT !.currBin = @ + 1],
         probeLenAcc + 1,
         IF ~isEmpty(q.bins[q.currBin]) THEN numFutEvsAcc + 1 ELSE numFutEvsAcc)

\* Mutant: numEvents is not decremented.
CalQCore_pop_noDecrement(q, probeLenAcc, numFutEvsAcc) ==
  IF q.numEvents = 0
  THEN [outcome |-> "ok", queue |-> q, retval |-> Null,
        probeLenAcc |-> probeLenAcc, numFutEvsAcc |-> numFutEvsAcc]
  ELSE CalQCore_pop_scan(q, probeLenAcc, numFutEvsAcc)

CalQCore_pop(q, probeLenAcc, numFutEvsAcc) ==
  IF q.numEvents = 0
  THEN [outcome |-> "ok", queue |-> q, retval |-> Null,
        probeLenAcc |-> probeLenAcc, numFutEvsAcc |-> numFutEvsAcc]
  ELSE CalQCore_pop_scan([q EXCEPT !.numEvents = @ - 1], probeLenAcc, numFutEvsAcc)

CalQCore_remove(q, subj) ==
  LET s == getSlot(q, getEventTime(subj))
  IN {[outcome |-> r.outcome, retval |-> r.retval,
       queue |-> [q EXCEPT !.bins[s] = r.root]] :
        r \in EventList_remove(q.bins[s], subj)}

\* consume: bucket i of the source is popped empty into self, then i + 1.
RECURSIVE CalQCore_consume_from(_, _, _)
CalQCore_consume_from(self, source, i) ==
  IF ~(i < getNumBins(source))
  THEN [outcome |-> "ok", queue |-> self, source |-> source]
  ELSE IF isEmpty(source.bins[i])
  THEN CalQCore_consume_from(self, source, i + 1)
  ELSE LET e == EventList_pop(source.bins[i])
           p == CalQCore_push(self, e.retval)
       IN IF p.outcome # "ok"
          THEN [outcome |-> p.outcome, queue |-> p.queue,
                source |-> [source EXCEPT !.bins[i] = e.root]]
          ELSE CalQCore_consume_from(p.queue, [source EXCEPT !.bins[i] = e.root], i)

\* Mutant: the loop over the source's buckets starts at 1.
CalQCore_consume_skipFirst(self, source) == CalQCore_consume_from(self, source, 1)

CalQCore_consume(self, source) == CalQCore_consume_from(self, source, 0)

\* operator=: every field is copied and the bucket array is taken over.
CalQCore_assign(src) == src

----------------------------------------------------------------------------
\* MyCalQueue

\* A shift count outside the width of unsigned int (a negative sum wraps
\* to a count above 31): the result of the shift is undefined.
ShiftCountUndefined(c) == c < 0 \/ c > 31

\* The outcomes of a retuning loop that evaluates a shift by a count out of
\* range, which the language leaves undefined.  With x = 0 the builds that
\* shift go on for ever, every result being 0 ("hang"), and other builds
\* stop the program at the shift or at the overflow of the int that is
\* decremented ("ub"); with x > 0 the results of the shift differ ("ub").
ShiftLoopOutcomes(x) == IF x = 0 THEN {"hang", "ub"} ELSE {"ub"}

\* while ((x >> (base + chg)) == 0) chg--;
\* The set of the possible results: one where every shift is defined, one
\* per outcome of ShiftLoopOutcomes once the count is out of range.
RECURSIVE LogChangeDown(_, _, _)
LogChangeDown(x, base, chg) ==
  IF ShiftCountUndefined(base + chg)
  THEN {[outcome |-> o, chg |-> chg] : o \in ShiftLoopOutcomes(x)}
  ELSE IF Shr(x, base + chg) = 0
  THEN LogChangeDown(x, base, chg - 1)
  ELSE {[outcome |-> "ok", chg |-> chg]}

\* while ((x >> (base + chg)) > 3) chg++;
RECURSIVE LogChangeUp(_, _, _)
LogChangeUp(x, base, chg) ==
  IF ShiftCountUndefined(base + chg)
  THEN [outcome |-> "ub", chg |-> chg]
  ELSE IF Shr(x, base + chg) > 3
  THEN LogChangeUp(x, base, chg + 1)
  ELSE [outcome |-> "ok", chg |-> chg]

\* The down loop followed by the up loop, from chg = 0: the set of the
\* possible results.
LogChange(x, base) ==
  UNION {IF d.outcome # "ok" THEN {d} ELSE {LogChangeUp(x, base, d.chg)} :
           d \in LogChangeDown(x, base, 0)}

binSizeLogChange(q, probeLenSum) == LogChange(probeLenSum, getLogNumBins(q))

yearLenLogChange(q, futureEventSum) == LogChange(futureEventSum, getLogNumBins(q) - 2)

\* Mutant: the new core replaces the old one without consuming it.
Rebuild_noConsume(q, logBinSize, logNumBins) ==
  IF ShiftCountUndefined(logBinSize) \/ ShiftCountUndefined(logNumBins)
  THEN [outcome |-> "ub", queue |-> q, source |-> q]
  ELSE [outcome |-> "ok",
        queue |-> CalQCore_assign(CalQCore(logBinSize, logNumBins, getCurrTime(q))),
        source |-> q]

\* The rebuild branch: a new core of the given geometry starting at the
\* current time consumes the old one and is assigned to queue.  The field
\* queue of the result is the member table: the new core once it has been
\* assigned, and, when a push of consume fails its assertion, the old table
\* with the events popped out of it so far, the failing one included.
Rebuild(q, logBinSize, logNumBins) ==
  IF ShiftCountUndefined(logBinSize) \/ ShiftCountUndefined(logNumBins)
  THEN [outcome |-> "ub", queue |-> q, source |-> q]
  ELSE LET c == CalQCore_consume(CalQCore(logBinSize, logNumBins, getCurrTime(q)), q)
       IN IF c.outcome # "ok"
          THEN [outcome |-> c.outcome, queue |-> c.source, source |-> c.source]
          ELSE [outcome |-> "ok", queue |-> CalQCore_assign(c.queue), source |-> c.source]

\* The block run when popCounter == numBins, after the core's pop.
Retune(q, probeLenSum, futureEventSum) ==
  {LET numBinsLogChange == y.chg - b.chg
   IN IF b.outcome # "ok" THEN [outcome |-> b.outcome, queue |-> q, rebuilt |-> FALSE]
      ELSE IF y.outcome # "ok" THEN [outcome |-> y.outcome, queue |-> q, rebuilt |-> FALSE]
      ELSE IF b.chg # 0 \/ numBinsLogChange # 0
      THEN LET r == Rebuild(q, getLogBinSize(q) + b.chg, getLogNumBins(q) + numBinsLogChange)
           IN [outcome |-> r.outcome, queue |-> r.queue, rebuilt |-> r.outcome = "ok"]
      ELSE [outcome |-> "ok", queue |-> q, rebuilt |-> FALSE] :
     b \in binSizeLogChange(q, probeLenSum),
     y \in yearLenLogChange(q, futureEventSum)}

\* Mutant: a pop that returns no event is not counted.
MyCalQueue_pop_noCountOnEmpty(q, probeLenSum, futureEventSum, counter) ==
  LET r == CalQCore_pop(q, probeLenSum, futureEventSum)
      n == IF r.retval = Null THEN counter ELSE counter + 1
      base == [outcome |-> r.outcome, queue |-> r.queue, retval |-> r.retval,
               popProbeLenSum |-> r.probeLenAcc,
               popFutureEventSum |-> r.numFutEvsAcc,
               popCounter |-> counter, rebuilt |-> FALSE]
  IN IF r.outcome # "ok" THEN {base}
     ELSE IF n = getNumBins(r.queue)
     THEN {IF t.outcome # "ok"
           THEN [base EXCEPT !.outcome = t.outcome, !.queue = t.queue,
                             !.popCounter = n]
           ELSE [base EXCEPT !.queue = t.queue, !.popProbeLenSum = 0,
                             !.popFutureEventSum = 0, !.popCounter = 0,
                             !.rebuilt = t.rebuilt] :
             t \in Retune(r.queue, r.probeLenAcc, r.numFutEvsAcc)}
     ELSE {[base EXCEPT !.popCounter = n]}

MyCalQueue_pop(q, probeLenSum, futureEventSum, counter) ==
  LET r == CalQCore_pop(q, probeLenSum, futureEventSum)
      base == [outcome |-> r.outcome, queue |-> r.queue, retval |-> r.retval,
               popProbeLenSum |-> r.probeLenAcc,
               popFutureEventSum |-> r.numFutEvsAcc,
               popCounter |-> counter, rebuilt |-> FALSE]
  IN IF r.outcome # "ok" THEN {base}
     ELSE IF counter + 1 = getNumBins(r.queue)
     THEN {IF t.outcome # "ok"
           THEN [base EXCEPT !.outcome = t.outcome, !.queue = t.queue,
                             !.popCounter = counter + 1]
           ELSE [base EXCEPT !.queue = t.queue, !.popProbeLenSum = 0,
                             !.popFutureEventSum = 0, !.popCounter = 0,
                             !.rebuilt = t.rebuilt] :
             t \in Retune(r.queue, r.probeLenAcc, r.numFutEvsAcc)}
     ELSE {[base EXCEPT !.popCounter = counter + 1]}

MyCalQueue_push(q, newEvent) ==
  LET r == CalQCore_push(q, newEvent) IN
  [outcome |-> r.outcome, queue |-> r.queue, retval |-> getNumEvents(r.queue)]

MyCalQueue_remove(q, subj) == CalQCore_remove(q, subj)

----------------------------------------------------------------------------
\* The state machine.

\* An event object that is never pushed, for remove.
AbsentId == MaxEvents + 1

\* What a call on the reference core leaves: its result if it returns.
RefAfter(r) == IF r.outcome = "ok" THEN r.queue ELSE ref

\* MyCalQueue(startTime, initLogNumEvents)
Init ==
  \E startTime \in StartTimes, initLogNumEvents \in InitLogNumEvents :
    /\ queue = CalQCore(0, initLogNumEvents + 1, startTime)
    /\ ref = CalQCore(0, initLogNumEvents + 1, startTime)
    /\ popProbeLenSum = 0
    /\ popFutureEventSum = 0
    /\ popCounter = 0
    /\ status = "ok"
    /\ op = "new"
    /\ absent = FALSE
    /\ retval = Null
    /\ refRetval = Null
    /\ nextId = 1
    /\ numPopped = 0
    /\ removed = {}
    /\ rebuilds = 0
    /\ list = <<>>

\* CalQCore(logBinSize, logNumBins, startTime), used without a controller
CoreInit ==
  \E logBinSize \in LogBinSizes, logNumBins \in LogNumBins, startTime \in StartTimes :
    /\ queue = CalQCore(logBinSize, logNumBins, startTime)
    /\ ref = CalQCore(logBinSize, logNumBins, startTime)
    /\ popProbeLenSum = 0
    /\ popFutureEventSum = 0
    /\ popCounter = 0
    /\ status = "ok"
    /\ op = "new"
    /\ absent = FALSE
    /\ retval = Null
    /\ refRetval = Null
    /\ nextId = 1
    /\ numPopped = 0
    /\ removed = {}
    /\ rebuilds = 0
    /\ list = <<>>

\* MyCalQueue::push of a new event object scheduled at time t
PushEvent(t) ==
  /\ status = "ok"
  /\ \E e \in {CalQEvent(nextId, t)} : \E r \in {MyCalQueue_push(queue, e)} :
        /\ status' = r.outcome
        /\ queue' = r.queue
        /\ op' = "push"
        /\ absent' = FALSE
        /\ retval' = IF r.outcome = "ok" THEN r.retval ELSE Null
        /\ nextId' = IF r.outcome = "ok" THEN nextId + 1 ELSE nextId
        /\ ref' = RefAfter(CalQCore_push(ref, e))
  /\ refRetval' = Null
  /\ UNCHANGED <<popProbeLenSum, popFutureEventSum, popCounter, numPopped, removed, rebuilds,
                 list>>

\* push while fewer than MaxEvents event objects have been pushed
Push(t) == nextId <= MaxEvents /\ PushEvent(t)

\* push while fewer than MaxFlowEvents event objects have been pushed
FlowPush(t) == nextId <= MaxFlowEvents /\ PushEvent(t)

\* MyCalQueue::pop
Pop ==
  /\ status = "ok"
  /\ \E r \in MyCalQueue_pop(queue, popProbeLenSum, popFutureEventSum, popCounter) :
     \E f \in {CalQCore_pop(ref, 0, 0)} :
        /\ status' = r.outcome
        /\ queue' = r.queue
        /\ popProbeLenSum' = r.popProbeLenSum
        /\ popFutureEventSum' = r.popFutureEventSum
        /\ popCounter' = r.popCounter
        /\ op' = "pop"
        /\ absent' = FALSE
        /\ retval' = IF r.outcome = "ok" THEN r.retval ELSE Null
        /\ numPopped' = IF r.outcome = "ok" /\ r.retval # Null
                        THEN numPopped + 1 ELSE numPopped
        /\ rebuilds' = IF r.rebuilt THEN rebuilds + 1 ELSE rebuilds
        /\ ref' = RefAfter(f)
        /\ refRetval' = IF f.outcome = "ok" THEN f.retval ELSE Null
  /\ UNCHANGED <<nextId, removed, list>>

\* remove of an event: one linked into the table, or an object that is not
\* (it was never pushed), whose time selects the bucket that is searched
Remove(e) ==
  /\ status = "ok"
  /\ \E r \in MyCalQueue_remove(queue, e) :
        /\ status' = r.outcome
        /\ queue' = r.queue
        /\ op' = "remove"
        /\ absent' = (e \notin Contained(queue))
        /\ retval' = r.retval
        /\ removed' = IF r.outcome = "ok" /\ r.retval THEN removed \cup {e} ELSE removed
        /\ \E f \in CalQCore_remove(ref, e) : ref' = RefAfter(f)
  /\ refRetval' = Null
  /\ UNCHANGED <<popProbeLenSum, popFutureEventSum, popCounter, nextId, numPopped, rebuilds,
                 list>>

\* CalQCore::push called directly
CorePush(t) ==
  /\ status = "ok"
  /\ nextId <= MaxEvents
  /\ \E r \in {CalQCore_push(queue, CalQEvent(nextId, t))} :
        /\ status' = r.outcome
        /\ queue' = r.queue
        /\ nextId' = IF r.outcome = "ok" THEN nextId + 1 ELSE nextId
  /\ op' = "push"
  /\ absent' = FALSE
  /\ retval' = Null
  /\ UNCHANGED <<popProbeLenSum, popFutureEventSum, popCounter, numPopped, removed,
                 rebuilds, ref, refRetval, list>>

\* CalQCore::pop called directly, with accumulators that are the caller's
\* locals
CorePop ==
  /\ status = "ok"
  /\ \E r \in {CalQCore_pop(queue, 0, 0)} :
        /\ status' = r.outcome
        /\ queue' = r.queue
        /\ retval' = IF r.outcome = "ok" THEN r.retval ELSE Null
        /\ numPopped' = IF r.outcome = "ok" /\ r.retval # Null
                        THEN numPopped + 1 ELSE numPopped
  /\ op' = "pop"
  /\ absent' = FALSE
  /\ UNCHANGED <<popProbeLenSum, popFutureEventSum, popCounter, nextId, removed,
                 rebuilds, ref, refRetval, list>>

\* CalQCore::remove called directly
CoreRemove(e) ==
  /\ status = "ok"
  /\ \E r \in CalQCore_remove(queue, e) :
        /\ status' = r.outcome
        /\ queue' = r.queue
        /\ retval' = r.retval
        /\ removed' = IF r.outcome = "ok" /\ r.retval THEN removed \cup {e} ELSE removed
  /\ op' = "remove"
  /\ absent' = (e \notin Contained(queue))
  /\ UNCHANGED <<popProbeLenSum, popFutureEventSum, popCounter, nextId, numPopped,
                 rebuilds, ref, refRetval, list>>

\* A new core of another geometry consumes the table, which holds events,
\* and replaces it.
CoreConsume(logBinSize, logNumBins) ==
  /\ status = "ok"
  /\ rebuilds < MaxRebuilds
  /\ Contained(queue) # {}
  /\ <<logBinSize, logNumBins>> # <<getLogBinSize(queue), getLogNumBins(queue)>>
  /\ \E r \in {Rebuild(queue, logBinSize, logNumBins)} :
        /\ status' = r.outcome
        /\ queue' = r.queue
  /\ op' = "consume"
  /\ absent' = FALSE
  /\ retval' = Null
  /\ rebuilds' = rebuilds + 1
  /\ UNCHANGED <<popProbeLenSum, popFutureEventSum, popCounter, nextId, numPopped,
                 removed, ref, refRetval, list>>

\* The times of an object that is not in the table: remove reads the time
\* only to select a bucket, and the times of one year select every bucket.
AbsentTimes(maxTime) ==
  {t \in 0..maxTime : t < getYearLength(queue)}

RemoveArgs == Contained(queue) \cup {CalQEvent(AbsentId, t) : t \in AbsentTimes(MaxTime)}

CoreRemoveArgs ==
  Contained(queue) \cup {CalQEvent(AbsentId, t) : t \in AbsentTimes(CoreMaxTime)}

Next ==
  \/ \E t \in 0..MaxTime : Push(t)
  \/ Pop
  \/ \E e \in RemoveArgs : Remove(e)

CoreNext ==
  \/ \E t \in 0..CoreMaxTime : CorePush(t)
  \/ CorePop
  \/ \E e \in CoreRemoveArgs : CoreRemove(e)
  \/ \E logBinSize \in LogBinSizes, logNumBins \in LogNumBins :
       CoreConsume(logBinSize, logNumBins)

\* MyCalQueue(startTime, 1): bin size 1 and 4 bins, the smallest geometry
\* whose retune can end in a rebuild
FlowInit ==
  \E startTime \in StartTimes :
    /\ queue = CalQCore(0, 2, startTime)
    /\ ref = CalQCore(0, 2, startTime)
    /\ popProbeLenSum = 0
    /\ popFutureEventSum = 0
    /\ popCounter = 0
    /\ status = "ok"
    /\ op = "new"
    /\ absent = FALSE
    /\ retval = Null
    /\ refRetval = Null
    /\ nextId = 1
    /\ numPopped = 0
    /\ removed = {}
    /\ rebuilds = 0
    /\ list = <<>>

\* The controller under pushes and pops only
FlowNext ==
  \/ \E t \in FlowTimes : FlowPush(t)
  \/ Pop

\* An EventList used on its own, empty after construction
ListInit ==
    /\ list = <<>>
    /\ queue = CalQCore(0, 0, 0)
    /\ ref = CalQCore(0, 0, 0)
    /\ popProbeLenSum = 0
    /\ popFutureEventSum = 0
    /\ popCounter = 0
    /\ status = "ok"
    /\ op = "new"
    /\ absent = FALSE
    /\ retval = Null
    /\ refRetval = Null
    /\ nextId = 1
    /\ numPopped = 0
    /\ removed = {}
    /\ rebuilds = 0

\* EventList::push of a new event object of time t
ListPush(t) ==
  /\ status = "ok"
  /\ nextId <= MaxListEvents
  /\ \E e \in {CalQEvent(nextId, t)} :
        IF EventList_push_asserts(list, e)
        THEN /\ status' = "ok"
             /\ list' = EventList_push(list, e)
             /\ nextId' = nextId + 1
        ELSE /\ status' = "assert"
             /\ UNCHANGED <<list, nextId>>
  /\ op' = "push"
  /\ absent' = FALSE
  /\ retval' = Null
  /\ UNCHANGED <<queue, popProbeLenSum, popFutureEventSum, popCounter, numPopped,
                 removed, rebuilds, ref, refRetval>>

\* EventList::pop
ListPop ==
  /\ status = "ok"
  /\ \E r \in {EventList_pop(list)} :
        /\ retval' = r.retval
        /\ list' = r.root
        /\ numPopped' = IF r.retval # Null THEN numPopped + 1 ELSE numPopped
  /\ op' = "pop"
  /\ absent' = FALSE
  /\ UNCHANGED <<queue, popProbeLenSum, popFutureEventSum, popCounter, status, nextId,
                 removed, rebuilds, ref, refRetval>>

\* EventList::remove of an event of the list, or of an object that is not
\* in it
ListRemove(e) ==
  /\ status = "ok"
  /\ \E r \in EventList_remove(list, e) :
        /\ status' = r.outcome
        /\ list' = r.root
        /\ retval' = r.retval
        /\ removed' = IF r.outcome = "ok" /\ r.retval THEN removed \cup {e} ELSE removed
  /\ op' = "remove"
  /\ absent' = (\A k \in 1..Len(list) : list[k] # e)
  /\ UNCHANGED <<queue, popProbeLenSum, popFutureEventSum, popCounter, nextId, numPopped,
                 rebuilds, ref, refRetval>>

ListRemoveArgs == {list[k] : k \in 1..Len(list)} \cup {CalQEvent(MaxListEvents + 1, 0)}

ListNext ==
  \/ \E t \in 0..MaxListTime : ListPush(t)
  \/ ListPop
  \/ \E e \in ListRemoveArgs : ListRemove(e)

\* CalQCore(logBinSize, logNumBins, startTime) with a start time at the top
\* of the range of TimeType
TopInit ==
  \E logBinSize \in LogBinSizes, logNumBins \in LogNumBins, startTime \in TopTimes :
    /\ queue = CalQCore(logBinSize, logNumBins, startTime)
    /\ ref = CalQCore(logBinSize, logNumBins, startTime)
    /\ popProbeLenSum = 0
    /\ popFutureEventSum = 0
    /\ popCounter = 0
    /\ status = "ok"
    /\ op = "new"
    /\ absent = FALSE
    /\ retval = Null
    /\ refRetval = Null
    /\ nextId = 1
    /\ numPopped = 0
    /\ removed = {}
    /\ rebuilds = 0
    /\ list = <<>>

\* Pushes, pops and consumes on a core that starts at the top of the range
TopNext ==
  \/ \E t \in TopTimes : CorePush(t)
  \/ CorePop
  \/ \E logBinSize \in LogBinSizes, logNumBins \in LogNumBins :
       CoreConsume(logBinSize, logNumBins)

Spec == Init /\ [][Next]_vars

FlowSpec == FlowInit /\ [][FlowNext]_vars

TopSpec == TopInit /\ [][TopNext]_vars

ListSpec == ListInit /\ [][ListNext]_vars

CoreSpec == CoreInit /\ [][CoreNext]_vars

----------------------------------------------------------------------------
\* Properties.

\* The last call was a pop that returned an event.
PopReturned == op = "pop" /\ status = "ok" /\ retval # Null

\* C1: the times of the events returned by successive pops are
\* non-decreasing: lastPopped never decreases, an event that pop returns is
\* not earlier than the lastPopped before the call and becomes lastPopped,
\* and the assertion of pop never fails, also across rebuilds.
C1_PopTimesNonDecreasing ==
  [][ /\ queue'.lastPopped >= queue.lastPopped
      /\ (op' = "pop" => status' # "assert")
      /\ (op' = "pop" /\ status' = "ok" /\ retval' # Null)
           => (retval'.time >= queue.lastPopped /\ queue'.lastPopped = retval'.time)
    ]_vars

\* A pop returned an event from a rebuilt table with buckets of size 2,
\* which still holds an event that was pushed before the returned one and
\* is later than it.
C1_Witness ==
  /\ PopReturned /\ rebuilds > 0 /\ popCounter > 0 /\ queue.binSize = 2
  /\ \E x \in Contained(queue) : x.id < retval.id /\ x.time > retval.time

\* C2: an event that pop returns is not later than any event still in the
\* table after the pop.
C2_PopReturnsMinimum ==
  PopReturned => \A x \in Contained(queue) : retval.time <= x.time

\* A pop returned an event of a bucket that comes after a bucket holding an
\* event of a later year.
C2_Witness ==
  /\ PopReturned
  /\ \E x \in Contained(queue) :
        /\ x.time >= queue.nextYearStart
        /\ getSlot(queue, x.time) < getSlot(queue, retval.time)

\* C3: with pushes and pops only, getNumEvents() is the number of pushes
\* minus the number of pops that returned an event, rebuilds included; a pop
\* with numEvents == 0 returns null and leaves numEvents at 0.
C3_Conservation ==
  /\ []((status = "ok" /\ removed = {})
          => getNumEvents(queue) = (nextId - 1) - numPopped)
  /\ [][(op' = "pop" /\ status' = "ok" /\ queue.numEvents = 0)
          => (retval' = Null /\ queue'.numEvents = 0)]_vars

\* A push has returned on a rebuilt table, which holds events in several
\* buckets, after pops that returned events.
C3_Witness ==
  /\ op = "push" /\ status = "ok" /\ rebuilds > 0 /\ numPopped > 1
  /\ \E x, y \in Contained(queue) :
        getSlot(queue, x.time) # getSlot(queue, y.time)

\* C4: every call of MyCalQueue::pop returns (here: on a queue on which
\* remove was never called).
C4_PopTerminates == (op = "pop" /\ removed = {}) => status # "hang"

\* C5: with pushes and pops only, every pop of the controller returns an
\* event of the time that the same pop returns on a core that keeps the
\* initial geometry, or both return null.
C5_ResizeTransparent ==
  (op = "pop" /\ status = "ok" /\ removed = {})
    => /\ (retval = Null) <=> (refRetval = Null)
       /\ retval.time = refRetval.time

\* A pop returned an event from a rebuilt table, whose geometry is not the
\* initial one: the table and the reference core still hold two events
\* that share a bucket in the one and not in the other.
C5_Witness ==
  /\ PopReturned /\ rebuilds > 0 /\ popCounter > 0
  /\ getNumBins(queue) # getNumBins(ref)
  /\ \E x, y \in Contained(queue) :
        (getSlot(queue, x.time) = getSlot(queue, y.time))
          # (getSlot(ref, x.time) = getSlot(ref, y.time))

\* C6: a push of an event earlier than lastPopped fails the assertion and
\* leaves the table, numEvents included, as it was.
C6_CausalityEnforced ==
  [][ \A t \in 0..CoreMaxTime :
        (CorePush(t) /\ t < queue.lastPopped)
          => (status' = "assert" /\ queue' = queue) ]_vars

\* A push failed the assertion after a pop had returned an event.
C6_Witness ==
  op = "push" /\ status = "assert" /\ numPopped > 0 /\ queue.lastPopped > 0

\* C7: remove of an event in the table returns true, and the pops that
\* follow return, and never return a removed event.
C7_RemoveThenDrain ==
  [][ /\ (op' = "remove" /\ ~absent') => (status' = "ok" /\ retval' = TRUE)
      /\ (op' = "pop" /\ removed # {})
           => (status' = "ok" /\ retval' \notin removed)
    ]_vars

\* C8: remove of an event that is not in the table returns false and
\* changes nothing.
C8_RemoveAbsent ==
  [][ (op' = "remove" /\ absent')
        => (status' = "ok" /\ retval' = FALSE /\ queue' = queue) ]_vars

\* C9 as claimed: of the events of one time, the one pushed first is
\* popped first: no event of the returned one's time that was pushed
\* earlier is left in the table.
C9_EqualTimesFifo ==
  PopReturned => \A x \in Contained(queue) : x.time = retval.time => x.id > retval.id

\* Event x is linked before event y in a bucket list of q.
LinkedBefore(q, x, y) ==
  \E b \in DOMAIN q.bins : \E i, j \in 1..Len(q.bins[b]) :
    i < j /\ q.bins[b][i] = x /\ q.bins[b][j] = y

\* C9 amended: while no rebuild has taken place, of the events of one time
\* the one pushed last is popped first; and a rebuild reverses the order of
\* the events of one time that it carries over, since consume pops them
\* from the head of the old list and pushes each before the ones carried
\* before it.
C9_EqualTimesLifo ==
  /\ []((PopReturned /\ rebuilds = 0)
          => \A x \in Contained(queue) : x.time = retval.time => x.id < retval.id)
  /\ [][ (op' = "pop" /\ status' = "ok" /\ rebuilds' = rebuilds + 1)
           => \A x, y \in Contained(queue') :
                (x.time = y.time /\ LinkedBefore(queue', x, y))
                  => LinkedBefore(queue, y, x) ]_vars

\* The scenario of the claim: 4 buckets of size 1 from time 0, pushes at
\* 5, 1, 3, 1, and the first pop has returned the event of time 1 that was
\* pushed second.
C9_Witness ==
  /\ PopReturned /\ rebuilds = 0 /\ numPopped = 1
  /\ getNumBins(queue) = 4 /\ queue.binSize = 1
  /\ retval = CalQEvent(4, 1)
  /\ Contained(queue) = {CalQEvent(1, 5), CalQEvent(2, 1), CalQEvent(3, 3)}

\* After a rebuild a pop has returned the event pushed first of two events
\* of one time that the rebuild carried over.
C9_RebuildWitness ==
  /\ PopReturned /\ rebuilds = 1 /\ popCounter = 1
  /\ \E x \in Contained(queue) : x.time = retval.time /\ x.id > retval.id

\* The smallest multiple of the year length greater than t
NextYearAfter(q, t) == ((t \div getYearLength(q)) + 1) * getYearLength(q)

\* C10: pop never returns an event at or after nextYearStart; on a table
\* holding a single event, one at or after nextYearStart, pop returns that
\* event, leaves the table empty and nextYearStart at the smallest multiple
\* of the year length greater than the event's time, having added whole
\* years.
C10_FutureYear ==
  [][ /\ (op' = "pop" /\ status' = "ok" /\ retval' # Null)
           => retval'.time < queue'.nextYearStart
      /\ \A e \in Contained(queue) :
           (op' = "pop" /\ Contained(queue) = {e} /\ e.time >= queue.nextYearStart)
             => /\ status' = "ok"
                /\ retval' = e
                /\ Contained(queue') = {}
                /\ queue'.nextYearStart = NextYearAfter(queue, e.time)
                /\ (queue'.nextYearStart - queue.nextYearStart) % getYearLength(queue) = 0
    ]_vars

\* The only event ever pushed was popped two or more years after the year
\* the table started in.
C10_Witness ==
  /\ PopReturned /\ nextId = 2 /\ numPopped = 1 /\ rebuilds = 0
  /\ getYearLength(queue) >= 2
  /\ queue.nextYearStart >= 3 * getYearLength(queue)

\* The positions <<bucket, place>> of the nodes linked into the table
Linked(q) == UNION {{<<b, k>> : k \in 1..Len(q.bins[b])} : b \in DOMAIN q.bins}

\* C11: every event in the table is linked at one place of one bucket
\* list, and the index of that list is (time & moduloMask) >> divideShift
\* under the geometry of the table.
C11_BucketInvariant ==
  /\ \A p \in Linked(queue) :
        getSlot(queue, queue.bins[p[1]][p[2]].time) = p[1]
  /\ \A p1, p2 \in Linked(queue) :
        queue.bins[p1[1]][p1[2]].id = queue.bins[p2[1]][p2[2]].id => p1 = p2

\* A core of bin size 2 has consumed another and holds events in two of
\* its buckets.
C11_Witness ==
  /\ status = "ok" /\ rebuilds > 0 /\ queue.binSize = 2
  /\ \E p1, p2 \in Linked(queue) : p1[1] # p2[1]

\* The times of a list do not decrease from head to tail.
Sorted(root) == \A k \in 1..(Len(root) - 1) : root[k].time <= root[k + 1].time

\* C12: a list is in non-decreasing order of time from head to tail after
\* any sequence of push, pop and remove, and neither push nor remove fails
\* an assertion.
C12_ListSorted ==
  /\ Sorted(list)
  /\ status # "assert"

\* A remove has left two events that were pushed in the reverse of their
\* time order.
C12_Witness ==
  /\ op = "remove" /\ status = "ok" /\ retval = TRUE
  /\ Len(list) = 2 /\ list[1].time < list[2].time /\ list[1].id > list[2].id

\* The place of the first entry of time t in a list that has one
FirstOfTime(root, t) ==
  CHOOSE k \in 1..Len(root) :
    root[k].time = t /\ \A j \in 1..(k - 1) : root[j].time # t

\* C13: a push of an event whose time is that of entries of the list links
\* the event immediately before the first of them, at the head or inside
\* the list, and the entries keep their order.
C13_PushBeforeEqual ==
  [][ \A t \in 0..MaxListTime :
        (ListPush(t) /\ \E k \in 1..Len(list) : list[k].time = t)
          => /\ status' = "ok"
             /\ list' = SubSeq(list, 1, FirstOfTime(list, t) - 1)
                          \o <<CalQEvent(nextId, t)>>
                          \o SubSeq(list, FirstOfTime(list, t), Len(list)) ]_vars

\* The event pushed last was linked inside the list, before an entry of its
\* own time and after an earlier one.
C13_Witness ==
  /\ op = "push" /\ status = "ok" /\ Len(list) = 3
  /\ list[2].id = nextId - 1
  /\ list[1].time < list[2].time /\ list[2].time = list[3].time

\* C14: a pop of the core called with numEvents > 0, after pushes, pops and
\* consumes only, returns, and returns an event.
C14_PopFindsEvent ==
  [][ (op' = "pop" /\ queue.numEvents > 0 /\ removed = {})
        => (status' = "ok" /\ retval' # Null) ]_vars

\* C15: at every retune (the pop that makes popCounter equal to numBins)
\* both pairs of loops end on defined shifts only, with
\* 1 <= P >> (B + binSizeLogChange) <= 3 and
\* 1 <= F >> (B - 2 + yearLenLogChange) <= 3.
C15_RetuneBands ==
  [][ \A r \in {CalQCore_pop(queue, popProbeLenSum, popFutureEventSum)} :
        (Pop /\ r.outcome = "ok" /\ popCounter + 1 = getNumBins(r.queue))
          => \A b \in binSizeLogChange(r.queue, r.probeLenAcc) :
             \A y \in yearLenLogChange(r.queue, r.numFutEvsAcc) :
               /\ b.outcome = "ok"
               /\ Shr(r.probeLenAcc, getLogNumBins(r.queue) + b.chg) \in 1..3
               /\ y.outcome = "ok"
               /\ Shr(r.numFutEvsAcc, getLogNumBins(r.queue) - 2 + y.chg) \in 1..3
    ]_vars

\* C16: every table that a retune builds has logBinSize + binSizeLogChange
\* >= 0 and logNumBins + numBinsLogChange >= 0.
C16_RebuildGeometryValid ==
  [][ \A r \in {CalQCore_pop(queue, popProbeLenSum, popFutureEventSum)} :
        (Pop /\ r.outcome = "ok" /\ popCounter + 1 = getNumBins(r.queue))
          => \A b \in binSizeLogChange(r.queue, r.probeLenAcc) :
             \A y \in yearLenLogChange(r.queue, r.numFutEvsAcc) :
               (b.outcome = "ok" /\ y.outcome = "ok"
                  /\ (b.chg # 0 \/ y.chg - b.chg # 0))
                 => /\ getLogBinSize(r.queue) + b.chg >= 0
                    /\ getLogNumBins(r.queue) + (y.chg - b.chg) >= 0
    ]_vars

\* C17: a rebuild leaves the set of events in the table, numEvents and
\* lastPopped as they were, leaves every bucket list of the old table
\* empty, and the new table has currBin and nextYearStart as its
\* constructor derives them from lastPopped.
C17_RebuildFrame ==
  [][ \A logBinSize \in LogBinSizes, logNumBins \in LogNumBins :
        (CoreConsume(logBinSize, logNumBins) /\ status' = "ok")
          => /\ Contained(queue') = Contained(queue)
             /\ Cardinality(Linked(queue')) = Cardinality(Linked(queue))
             /\ getNumEvents(queue') = getNumEvents(queue)
             /\ getCurrTime(queue') = getCurrTime(queue)
             /\ \A b \in DOMAIN queue.bins :
                   isEmpty(Rebuild(queue, logBinSize, logNumBins).source.bins[b])
             /\ queue'.currBin = getSlot(queue', getCurrTime(queue))
             /\ queue'.nextYearStart = NextYearAfter(queue', getCurrTime(queue))
    ]_vars

\* C18: every pop of the controller that returns, with an event or
\* without, adds one to popCounter; the pop that makes popCounter equal to
\* numBins, and no other, retunes, and leaves popProbeLenSum,
\* popFutureEventSum and popCounter at 0; between calls
\* 0 <= popCounter < numBins.
C18_RetuneGating ==
  /\ [](status = "ok" => (0 <= popCounter /\ popCounter < getNumBins(queue)))
  /\ [][ (op' = "pop" /\ status' = "ok")
           => IF popCounter + 1 = getNumBins(queue)
              THEN popProbeLenSum' = 0 /\ popFutureEventSum' = 0 /\ popCounter' = 0
              ELSE /\ popCounter' = popCounter + 1
                   /\ rebuilds' = rebuilds
                   /\ getNumBins(queue') = getNumBins(queue)
                   /\ getLogBinSize(queue') = getLogBinSize(queue) ]_vars

\* A pop that returned no event was the one that retuned, on a table that
\* an earlier retune had rebuilt, and rebuilt the table again.
C18_Witness ==
  /\ op = "pop" /\ status = "ok" /\ retval = Null
  /\ popCounter = 0 /\ numPopped > 0 /\ rebuilds = 2

\* C19: between calls, after pushes, pops and rebuilds, currBin is the
\* slot of lastPopped, nextYearStart is a multiple of the year length,
\* nextYearStart - yearLength <= lastPopped < nextYearStart, and no event of
\* the current year is linked into a bucket below currBin.
C19_CursorInvariant ==
  (status = "ok" /\ removed = {})
    => /\ queue.currBin = getSlot(queue, queue.lastPopped)
       /\ queue.nextYearStart % getYearLength(queue) = 0
       /\ TimeLeq(queue.nextYearStart - getYearLength(queue), queue.lastPopped)
       /\ TimeLess(queue.lastPopped, queue.nextYearStart)
       /\ \A e \in Contained(queue) :
             TimeLess(e.time, queue.nextYearStart)
               => getSlot(queue, e.time) >= queue.currBin

\* C20: between calls numEvents is the number of events linked into the
\* bucket lists of the table, after a remove that returned true as well.
C20_CountInvariant ==
  status = "ok" => getNumEvents(queue) = Cardinality(Linked(queue))

====
